---- MODULE Spec2Model ----
(***************************************************************************)
(* Model of the memory toolkit of tom-sapletta-com/glon:                   *)
(*   - find_object_cycles        (src/gc_toolkit/utils.py)                 *)
(*   - MemoryProfiler            (src/klo/core.py)                         *)
(* The recursive search of find_object_cycles is unfolded into one step    *)
(* per call and per return of the inner function _find_cycles.             *)
(***************************************************************************)
EXTENDS Integers, Sequences, FiniteSets, TLC

(* ---------------- bounds of the model ---------------- *)
NumNodes == 3
MaxEdges == 3
MaxDepth == 3
HeapSize == 2
NumCollectors == 2
MaxCollects == 3

Nodes == 1..NumNodes
NoObj == 0
Depths == (0 - 1)..MaxDepth

VARIABLES
    refs,        \* reference graph: node -> list returned by gc.get_referents
    fails,       \* nodes for which gc.get_referents raises
    val,         \* node -> value class; x == y in Python iff same class
    root,        \* argument obj of find_object_cycles
    max_depth,   \* argument max_depth of find_object_cycles
    cycles,      \* local list cycles
    visited,     \* local set visited (ids of objects)
    path,        \* local list path
    stack,       \* call stack of _find_cycles, one frame per active call
    pc,          \* "running" | "done"
    entered,     \* history: every node ever added to visited in this call
    enumerated   \* history: node -> how often its referents were enumerated

cvars == <<refs, fails, val, root, max_depth, cycles, visited, path, stack,
           pc, entered, enumerated>>

VARIABLES
    heap,        \* address -> the object living there: a snapshot dict, an
                 \* object of the caller, or nothing
    snapshots,   \* MemoryProfiler.snapshots: list of references to dicts
    weak_refs,   \* MemoryProfiler.weak_refs: str(id(obj)) -> entry
    held         \* the value the caller keeps from the last call that
                 \* returned one

pvars == <<heap, snapshots, weak_refs, held>>

VARIABLES
    psutil,        \* the host has the psutil package installed
    gc_enabled,    \* the host collector is on: gc.isenabled()
    gc_collected,  \* the generations the host was asked to collect, in order
    made,          \* the GarbageCollector instances constructed so far
    enabled,       \* instance -> GarbageCollector.enabled
    stats_history, \* instance -> GarbageCollector.stats_history
    summary        \* what the last GarbageCollector call returned

gvars == <<psutil, gc_enabled, gc_collected, made, enabled, stats_history,
           summary>>

VARIABLES
    args,         \* the command line of the CLI: url, dry_run, verbose
    target,       \* the target directory on disk: absent, empty or nonempty
    git_host,     \* what running git clone does on this host
    cli_pc,       \* the position of main()
    parsed,       \* local parsed of main(): NoParse or owner and repo
    success,      \* local success of main(): what clone_repository returned
    clone_calls,  \* history: how often clone_repository was called
    git_runs,     \* history: the state of target at each git clone run
    output        \* the lines printed so far

lvars == <<args, target, git_host, cli_pc, parsed, success, clone_calls,
           git_runs, output>>

vars == <<cvars, pvars, gvars, lvars>>

(* ---------------- helpers ---------------- *)
RECURSIVE SortedSeq(_)
SortedSeq(S) ==
    IF S = {} THEN <<>>
    ELSE LET m == CHOOSE x \in S : \A y \in S : x <= y
         IN  <<m>> \o SortedSeq(S \ {m})

Graphs ==
    { [n \in Nodes |-> SortedSeq({e[2] : e \in {d \in E : d[1] = n}})] :
        E \in {X \in SUBSET (Nodes \X Nodes) : Cardinality(X) <= MaxEdges} }

\* Python objects compare by identity unless __eq__ says otherwise: either all
\* nodes are distinct by value, or all compare equal (e.g. equal empty lists).
ValChoices == { [n \in Nodes |-> n], [n \in Nodes |-> 1] }

(* ---------------- host and GarbageCollector values ---------------- *)
Collectors == 1..NumCollectors

\* gc.collect(generation) takes generation 0, 1 or 2
Generations == 0..2

NoSummary == [kind |-> "none", enabled |-> FALSE, collected |-> 0]

(* ---------------- command line values ---------------- *)
\* a URL by the features the patterns of parse_git_url look at: how it
\* starts, how many '/'-separated parts follow the host, whether it ends in
\* ".git"
Urls ==
    [form : {"ssh", "https", "other"}, parts : 1..3, dot_git : BOOLEAN]

NoArgs == [url |-> [form |-> "other", parts |-> 1, dot_git |-> FALSE],
           dry_run |-> FALSE, verbose |-> FALSE]
NoParse == [ok |-> FALSE]

(* ---------------- MemoryProfiler ---------------- *)
Addrs == 1..HeapSize

\* what time.time(), process.memory_info(), gc.get_objects() and
\* gc.get_count() give at the moment of a take_snapshot call
EarlySample ==
    [timestamp |-> 1, rss |-> 40, vms |-> 90, objects_count |-> 7,
     gc_counts |-> <<1, 0, 0>>]
LateSample ==
    [timestamp |-> 2, rss |-> 30, vms |-> 95, objects_count |-> 9,
     gc_counts |-> <<0, 1, 0>>]

\* the take_snapshot calls a caller makes: a label and what the host reports
SnapshotCalls ==
    { [label |-> "before", sample |-> EarlySample],
      [label |-> "after", sample |-> LateSample] }

\* labels given to tracked objects
Labels == {"x", "y"}

\* type names of the caller's objects; instances of a plain class accept weak
\* references, lists do not (weakref.ref raises TypeError)
Types == {"TestObject", "list"}
WeakRefable(type) == type = "TestObject"

Free == [kind |-> "free"]
NoEntry == [tracked |-> FALSE]
NoStatus == [listed |-> FALSE]
NoDiff == [time_diff |-> 0, rss_diff |-> 0, vms_diff |-> 0,
           objects_diff |-> 0, label1 |-> "", label2 |-> ""]
NoListing == [a \in Addrs |-> NoStatus]
Nothing == [kind |-> "none", ref |-> 0, diff |-> NoDiff, listing |-> NoListing]

\* core.py:111-118  the snapshot dict
SnapshotDict(label, s) ==
    [kind |-> "dict", label |-> label, timestamp |-> s.timestamp,
     rss |-> s.rss, vms |-> s.vms, objects_count |-> s.objects_count,
     gc_counts |-> s.gc_counts]

\* an object of the caller; held: the caller still has a reference to it
UserObject(type) == [kind |-> "obj", type |-> type, held |-> TRUE]

\* the registry keeps the object at address a alive (core.py:139 ref = obj)
StronglyTracked(wr, a) == wr[a].tracked /\ wr[a].ref_type = "strong"

\* a dict stays on the heap while the snapshot list or the caller refers to it
Referenced(a, snaps, hld) ==
    \/ \E i \in 1..Len(snaps) : snaps[i] = a
    \/ (hld.kind = "snapshot" /\ hld.ref = a)

\* reference counting frees a dict nothing refers to
FreeDicts(h, snaps, hld) ==
    [a \in Addrs |->
        IF h[a].kind = "dict" /\ ~Referenced(a, snaps, hld) THEN Free ELSE h[a]]

\* Python list indexing: 0-based, negative indexes count from the end
ValidIndex(list, i) == (0 - Len(list)) <= i /\ i < Len(list)
ListGet(list, i) == IF i >= 0 THEN list[i + 1] ELSE list[Len(list) + i + 1]

\* where the host places a new dict: the program never reads a dict's
\* address, so the first free one stands for any
FreeAddrs(h) == {a \in Addrs : h[a] = Free}
DictAddrs(h) ==
    IF FreeAddrs(h) = {} THEN {}
    ELSE {CHOOSE a \in FreeAddrs(h) : \A b \in FreeAddrs(h) : a <= b}

\* the indexes a caller may pass: every valid one, and one beyond the list on
\* either side
Indexes(snaps) == (0 - Len(snaps) - 1)..Len(snaps)

\* core.py:186  the test that raises IndexError("Snapshot index out of range")
IndexCheckFails(snaps, index1, index2) ==
    index1 >= Len(snaps) \/ index2 >= Len(snaps)

\* core.py:186-190  compare_snapshots raises IndexError: by its own test, or
\* by the list when an index is below -len
CompareRaises(snaps, index1, index2) ==
    \/ IndexCheckFails(snaps, index1, index2)
    \/ ~ValidIndex(snaps, index1)
    \/ ~ValidIndex(snaps, index2)

\* variant of the difference: its size without its sign
DeltaAbs(first, second) ==
    IF second >= first THEN second - first ELSE first - second

\* core.py:193-198  the differences are second minus first
Delta(first, second) == second - first

\* core.py:189-199  the comparison dict
CompareResult(h, snaps, index1, index2) ==
    LET snap1 == h[ListGet(snaps, index1)]
        snap2 == h[ListGet(snaps, index2)]
    IN  [time_diff |-> Delta(snap1.timestamp, snap2.timestamp),
         rss_diff |-> Delta(snap1.rss, snap2.rss),
         vms_diff |-> Delta(snap1.vms, snap2.vms),
         objects_diff |-> Delta(snap1.objects_count, snap2.objects_count),
         label1 |-> snap1.label,
         label2 |-> snap2.label]

\* core.py:135-148  the registry entry; a weak reference is live while its
\* referent exists. The entry's 'created' time is copied into every status
\* and read by nothing else; it is left out.
TrackEntry(type, label) ==
    [tracked |-> TRUE,
     ref_type |-> IF WeakRefable(type) THEN "weak" ELSE "strong",
     ref_live |-> TRUE,
     label |-> label, type |-> type]

\* core.py:155-159  info['ref']() for a weak reference, the object itself
\* otherwise; alive when that is not None
EntryAlive(info) ==
    IF info.ref_type = "weak" THEN info.ref_live ELSE TRUE

\* core.py:153-173  get_tracked_objects: one status per registry entry
TrackedObjects(wr) ==
    [a \in Addrs |->
        IF wr[a].tracked
        THEN [listed |-> TRUE, label |-> wr[a].label, type |-> wr[a].type,
              alive |-> EntryAlive(wr[a])]
        ELSE NoStatus]

\* variant of the append: the new snapshot is put in front
PrependSnapshot(snaps, a) == <<a>> \o snaps

\* core.py:120  self.snapshots.append(snapshot)
AppendSnapshot(snaps, a) == Append(snaps, a)

\* variant of the clear: only the oldest snapshot is dropped
DropOldestSnapshot(snaps) == IF snaps = <<>> THEN <<>> ELSE Tail(snaps)

\* core.py:203  self.snapshots.clear()
ClearedSnapshots(snaps) == <<>>

\* core.py:207  self.weak_refs.clear()
ClearedTracking(wr) == [a \in Addrs |-> NoEntry]

\* variant of the import: the package is taken to be there
GaugeAssumed(installed) == TRUE

\* core.py:105  import psutil; utils.py:61, 184  psutil is None or
\* sys.modules.get('psutil') is None: the package can be used when installed
GaugeAvailable(installed) == installed

\* the ImportError the caller gets when it cannot
Unavailable == [Nothing EXCEPT !.kind = "ImportError"]

\* the monitor_memory_usage calls a caller makes
MonitorCalls ==
    { [duration |-> 0, interval |-> 1], [duration |-> 1, interval |-> 1],
      [duration |-> 2, interval |-> 1], [duration |-> 3, interval |-> 2] }

\* utils.py:68-79  the loop takes a sample and sleeps for interval while less
\* than duration has passed
RECURSIVE SamplesTaken(_, _, _)
SamplesTaken(elapsed, duration, interval) ==
    IF elapsed < duration
    THEN 1 + SamplesTaken(elapsed + interval, duration, interval)
    ELSE 0

\* MemoryProfiler.__init__ (core.py:91-93); no cycle search is running
InitProfiler ==
    /\ heap = [a \in Addrs |-> Free]
    /\ snapshots = <<>>
    /\ weak_refs = [a \in Addrs |-> NoEntry]
    /\ held = Nothing
    /\ refs = [n \in Nodes |-> <<>>]
    /\ fails = {}
    /\ val = [n \in Nodes |-> n]
    /\ root = 1
    /\ max_depth = 0
    /\ cycles = <<>>
    /\ visited = {}
    /\ path = <<>>
    /\ stack = <<>>
    /\ pc = "done"
    /\ entered = {}
    /\ enumerated = [n \in Nodes |-> 0]
    /\ psutil = TRUE
    /\ gc_enabled = TRUE
    /\ gc_collected = <<>>
    /\ made = {}
    /\ enabled = [i \in Collectors |-> FALSE]
    /\ stats_history = [i \in Collectors |-> <<>>]
    /\ summary = NoSummary
    /\ args = NoArgs
    /\ target = "absent"
    /\ git_host = "ok"
    /\ cli_pc = "exit"
    /\ parsed = NoParse
    /\ success = FALSE
    /\ clone_calls = 0
    /\ git_runs = <<>>
    /\ output = <<>>

\* core.py:95-121  take_snapshot(label): build the dict, append it, return it
TakeSnapshot ==
    \E c \in SnapshotCalls :
        /\ IF GaugeAvailable(psutil)
           THEN \E a \in DictAddrs(heap) :
                  LET snaps == AppendSnapshot(snapshots, a)
                      hld == [Nothing EXCEPT !.kind = "snapshot", !.ref = a]
                      dict == SnapshotDict(c.label, c.sample)
                  IN  /\ snapshots' = snaps
                      /\ held' = hld
                      /\ heap' = FreeDicts([heap EXCEPT ![a] = dict],
                                           snaps, hld)
           ELSE /\ held' = Unavailable
                /\ heap' = FreeDicts(heap, snapshots, held')
                /\ UNCHANGED snapshots
        /\ UNCHANGED <<weak_refs, cvars, gvars, lvars>>

\* core.py:175-199  compare_snapshots(index1, index2): the caller gets the
\* comparison dict or an IndexError
CompareSnapshotsCall(index1, index2) ==
    /\ LET hld == IF CompareRaises(snapshots, index1, index2)
                  THEN [Nothing EXCEPT !.kind = "IndexError"]
                  ELSE [Nothing EXCEPT
                          !.kind = "diff",
                          !.diff = CompareResult(heap, snapshots,
                                                 index1, index2)]
       IN  /\ held' = hld
           /\ heap' = FreeDicts(heap, snapshots, hld)
    /\ UNCHANGED <<snapshots, weak_refs, cvars, gvars, lvars>>

CompareSnapshots ==
    \E index1 \in Indexes(snapshots), index2 \in Indexes(snapshots) :
        CompareSnapshotsCall(index1, index2)

\* core.py:201-203  clear_snapshots()
ClearSnapshots ==
    /\ snapshots' = ClearedSnapshots(snapshots)
    /\ heap' = FreeDicts(heap, snapshots', held)
    /\ UNCHANGED <<weak_refs, held, cvars, gvars, lvars>>

\* core.py:123-149  track_object(obj, label) on an object the caller holds
\* the object is the one at address a, so that str(id(obj)) is a
TrackObjectCall(a, label) ==
    /\ heap[a].kind = "obj"
    /\ heap[a].held
    /\ weak_refs' = [weak_refs EXCEPT
                       ![a] = TrackEntry(heap[a].type, label)]
    /\ held' = [Nothing EXCEPT !.kind = "id", !.ref = a]
    /\ heap' = FreeDicts(heap, snapshots, held')
    /\ UNCHANGED <<snapshots, cvars, gvars, lvars>>

TrackObject ==
    \E a \in Addrs, label \in Labels : TrackObjectCall(a, label)

\* core.py:151-173  get_tracked_objects()
GetTrackedObjects ==
    /\ held' = [Nothing EXCEPT !.kind = "tracked",
                               !.listing = TrackedObjects(weak_refs)]
    /\ heap' = FreeDicts(heap, snapshots, held')
    /\ UNCHANGED <<snapshots, weak_refs, cvars, gvars, lvars>>

\* core.py:205-207  clear_tracking()
ClearTracking ==
    /\ weak_refs' = ClearedTracking(weak_refs)
    /\ UNCHANGED <<heap, snapshots, held, cvars, gvars, lvars>>

\* utils.py:50-81  monitor_memory_usage(duration, interval): the list of
\* samples, or ImportError before anything is sampled
MonitorMemoryUsage ==
    \E c \in MonitorCalls :
        /\ held' = IF GaugeAvailable(psutil)
                   THEN [Nothing EXCEPT
                           !.kind = "samples",
                           !.ref = SamplesTaken(0, c.duration, c.interval)]
                   ELSE Unavailable
        /\ heap' = FreeDicts(heap, snapshots, held')
        /\ UNCHANGED <<snapshots, weak_refs, cvars, gvars, lvars>>

\* utils.py:177-217  analyze_memory_usage(): the analysis dict, or ImportError
AnalyzeMemoryUsage ==
    /\ held' = IF GaugeAvailable(psutil)
               THEN [Nothing EXCEPT !.kind = "analysis"]
               ELSE Unavailable
    /\ heap' = FreeDicts(heap, snapshots, held')
    /\ UNCHANGED <<snapshots, weak_refs, cvars, gvars, lvars>>

\* the caller creates an object; the host places it at any free address
Allocate ==
    \E a \in FreeAddrs(heap), type \in Types :
        /\ heap' = [heap EXCEPT ![a] = UserObject(type)]
        /\ UNCHANGED <<snapshots, weak_refs, held, cvars, gvars, lvars>>

\* the caller drops its references to an object (del obj)
Release ==
    \E a \in Addrs :
        /\ heap[a].kind = "obj"
        /\ heap[a].held
        /\ heap' = [heap EXCEPT ![a].held = FALSE]
        /\ UNCHANGED <<snapshots, weak_refs, held, cvars, gvars, lvars>>

\* the collector reclaims an object nothing refers to; weak references to it
\* are cleared and its address may be used again
Reclaim ==
    \E a \in Addrs :
        /\ heap[a].kind = "obj"
        /\ ~heap[a].held
        /\ ~StronglyTracked(weak_refs, a)
        /\ heap' = [heap EXCEPT ![a] = Free]
        /\ weak_refs' = [weak_refs EXCEPT
                           ![a] = IF @.tracked /\ @.ref_live
                                  THEN [@ EXCEPT !.ref_live = FALSE] ELSE @]
        /\ UNCHANGED <<snapshots, held, cvars, gvars, lvars>>

NextProfiler ==
    \/ TakeSnapshot
    \/ CompareSnapshots
    \/ ClearSnapshots
    \/ TrackObject
    \/ GetTrackedObjects
    \/ ClearTracking
    \/ Allocate
    \/ Release
    \/ Reclaim

SpecProfiler == InitProfiler /\ [][NextProfiler]_vars

\* the callers of the process-memory gauge, on a host with or without psutil
InitGauge ==
    /\ heap = [a \in Addrs |-> Free]
    /\ snapshots = <<>>
    /\ weak_refs = [a \in Addrs |-> NoEntry]
    /\ held = Nothing
    /\ refs = [n \in Nodes |-> <<>>]
    /\ fails = {}
    /\ val = [n \in Nodes |-> n]
    /\ root = 1
    /\ max_depth = 0
    /\ cycles = <<>>
    /\ visited = {}
    /\ path = <<>>
    /\ stack = <<>>
    /\ pc = "done"
    /\ entered = {}
    /\ enumerated = [n \in Nodes |-> 0]
    /\ psutil \in BOOLEAN
    /\ gc_enabled = TRUE
    /\ gc_collected = <<>>
    /\ made = {}
    /\ enabled = [i \in Collectors |-> FALSE]
    /\ stats_history = [i \in Collectors |-> <<>>]
    /\ summary = NoSummary
    /\ args = NoArgs
    /\ target = "absent"
    /\ git_host = "ok"
    /\ cli_pc = "exit"
    /\ parsed = NoParse
    /\ success = FALSE
    /\ clone_calls = 0
    /\ git_runs = <<>>
    /\ output = <<>>

NextGauge ==
    \/ TakeSnapshot
    \/ CompareSnapshots
    \/ ClearSnapshots
    \/ MonitorMemoryUsage
    \/ AnalyzeMemoryUsage

SpecGauge == InitGauge /\ [][NextGauge]_vars

\* what a caller writes into a snapshot it was given: snapshot['rss'] = value
CallerValues == {0, 55}

\* core.py:120-121  take_snapshot appends the dict and returns that same dict,
\* so a write of the caller to the returned value is a write to the dict at
\* its address
WrittenDict(h, a, value) == [h EXCEPT ![a].rss = value]

\* the caller changes the snapshot it holds from the last take_snapshot
EditReturnedSnapshot ==
    \E value \in CallerValues :
        /\ held.kind = "snapshot"
        /\ heap[held.ref].kind = "dict"
        /\ heap[held.ref].rss # value
        /\ heap' = WrittenDict(heap, held.ref, value)
        /\ UNCHANGED <<snapshots, weak_refs, held, cvars, gvars, lvars>>

\* a caller that takes snapshots, edits what it was given and compares
NextSnapshotCaller ==
    \/ TakeSnapshot
    \/ EditReturnedSnapshot
    \/ CompareSnapshots
    \/ ClearSnapshots

SpecSnapshotCaller == InitProfiler /\ [][NextSnapshotCaller]_vars

(* ---------------- GarbageCollector ---------------- *)
\* core.py:39  gc.collect() without an argument: the host runs a full
\* collection (generation 2) whatever generation the caller asked for
CollectedGeneration(generation) == 2

\* time.time(): the host's clock, which moves on with every collection
Clock(collected) == Len(collected)

\* gc.get_stats(): how many collections the host has run of generation g
HostStats(collected) ==
    [g \in Generations |->
        Cardinality({k \in 1..Len(collected) : collected[k] = g})]

\* core.py:69-74  the entry of _record_stats; gc.get_count() right after a
\* collection of generation g has the counters up to g at zero
StatsEntry(collected) ==
    [timestamp |-> Clock(collected),
     counts |-> [g \in Generations |->
                   IF g <= collected[Len(collected)] THEN 0 ELSE 1],
     stats |-> HostStats(collected)]

\* variant of _record_stats: only the latest entry is kept
RecordLatestOnly(history, entry) == <<entry>>

\* core.py:75  self.stats_history.append(stats)
RecordStats(history, entry) == Append(history, entry)

\* the host interpreter starts, collector on or off; no GarbageCollector yet
InitCollector ==
    /\ psutil = TRUE
    /\ gc_enabled \in BOOLEAN
    /\ gc_collected = <<>>
    /\ made = {}
    /\ enabled = [i \in Collectors |-> FALSE]
    /\ stats_history = [i \in Collectors |-> <<>>]
    /\ summary = NoSummary
    /\ heap = [a \in Addrs |-> Free]
    /\ snapshots = <<>>
    /\ weak_refs = [a \in Addrs |-> NoEntry]
    /\ held = Nothing
    /\ refs = [n \in Nodes |-> <<>>]
    /\ fails = {}
    /\ val = [n \in Nodes |-> n]
    /\ root = 1
    /\ max_depth = 0
    /\ cycles = <<>>
    /\ visited = {}
    /\ path = <<>>
    /\ stack = <<>>
    /\ pc = "done"
    /\ entered = {}
    /\ enumerated = [n \in Nodes |-> 0]
    /\ args = NoArgs
    /\ target = "absent"
    /\ git_host = "ok"
    /\ cli_pc = "exit"
    /\ parsed = NoParse
    /\ success = FALSE
    /\ clone_calls = 0
    /\ git_runs = <<>>
    /\ output = <<>>

\* core.py:15-17  GarbageCollector(): empty history, flag read from the host
NewCollector ==
    \E i \in Collectors \ made :
        /\ made' = made \cup {i}
        /\ stats_history' = [stats_history EXCEPT ![i] = <<>>]
        /\ enabled' = [enabled EXCEPT ![i] = gc_enabled]
        /\ UNCHANGED <<psutil, gc_enabled, gc_collected, summary, cvars, pvars, lvars>>

\* core.py:19-22  enable()
EnableCall(i) ==
    /\ i \in made
    /\ gc_enabled' = TRUE
    /\ enabled' = [enabled EXCEPT ![i] = TRUE]
    /\ UNCHANGED <<psutil, gc_collected, made, stats_history, summary,
                   cvars, pvars, lvars>>

Enable == \E i \in Collectors : EnableCall(i)

\* core.py:24-27  disable()
DisableCall(i) ==
    /\ i \in made
    /\ gc_enabled' = FALSE
    /\ enabled' = [enabled EXCEPT ![i] = FALSE]
    /\ UNCHANGED <<psutil, gc_collected, made, stats_history, summary,
                   cvars, pvars, lvars>>

Disable == \E i \in Collectors : DisableCall(i)

\* core.py:29-41  collect(generation): collect, record, return the count
CollectCall(i, generation) ==
    /\ i \in made
    /\ Len(gc_collected) < MaxCollects
    /\ gc_collected' = Append(gc_collected, CollectedGeneration(generation))
    /\ stats_history' =
          [stats_history EXCEPT
             ![i] = RecordStats(@, StatsEntry(gc_collected'))]
    /\ summary' = [NoSummary EXCEPT !.kind = "collected"]
    /\ UNCHANGED <<psutil, gc_enabled, made, enabled, cvars, pvars, lvars>>

Collect == \E i \in Collectors, generation \in Generations :
               CollectCall(i, generation)

\* core.py:77-85  get_memory_summary(): 'enabled' is the cached flag
GetMemorySummaryCall(i) ==
    /\ i \in made
    /\ summary' = [NoSummary EXCEPT !.kind = "summary",
                                    !.enabled = enabled[i]]
    /\ UNCHANGED <<psutil, gc_enabled, gc_collected, made, enabled,
                   stats_history, cvars, pvars, lvars>>

GetMemorySummary == \E i \in Collectors : GetMemorySummaryCall(i)

NextCollector ==
    \/ NewCollector
    \/ Enable
    \/ Disable
    \/ Collect
    \/ GetMemorySummary

SpecCollector == InitCollector /\ [][NextCollector]_vars

(* ---------------- CLI: main and clone_repository ---------------- *)
\* cli.py:24-42  parse_git_url: the SSH pattern needs owner/repo.git, the
\* HTTPS patterns owner/repo with or without .git; anything else gives None
ParseGitUrl(url) ==
    IF \/ (url.form = "ssh" /\ url.parts = 2 /\ url.dot_git)
       \/ (url.form = "https" /\ url.parts = 2)
    THEN [ok |-> TRUE, owner |-> "owner", repo |-> "repo"]
    ELSE NoParse

\* cli.py:61  target_dir.mkdir(parents=True, exist_ok=True)
MadeDirectory(dir) == IF dir = "absent" THEN "empty" ELSE dir

\* variant of the emptiness test: the directory always passes as empty
HasEntriesNever(dir) == FALSE

\* cli.py:79  any(target_dir.iterdir())
HasEntries(dir) == dir = "nonempty"

\* print(...) under if args.verbose
Verbose(line) == IF args.verbose THEN <<line>> ELSE <<>>

\* the gc command is started with some command line, on some disk and host
InitCli ==
    /\ args \in [url : Urls, dry_run : BOOLEAN, verbose : BOOLEAN]
    /\ target \in {"absent", "empty", "nonempty"}
    /\ git_host \in {"ok", "fails", "missing"}
    /\ cli_pc = "parse"
    /\ parsed = NoParse
    /\ success = FALSE
    /\ clone_calls = 0
    /\ git_runs = <<>>
    /\ output = <<>>
    /\ psutil = TRUE
    /\ gc_enabled = TRUE
    /\ gc_collected = <<>>
    /\ made = {}
    /\ enabled = [i \in Collectors |-> FALSE]
    /\ stats_history = [i \in Collectors |-> <<>>]
    /\ summary = NoSummary
    /\ heap = [a \in Addrs |-> Free]
    /\ snapshots = <<>>
    /\ weak_refs = [a \in Addrs |-> NoEntry]
    /\ held = Nothing
    /\ refs = [n \in Nodes |-> <<>>]
    /\ fails = {}
    /\ val = [n \in Nodes |-> n]
    /\ root = 1
    /\ max_depth = 0
    /\ cycles = <<>>
    /\ visited = {}
    /\ path = <<>>
    /\ stack = <<>>
    /\ pc = "done"
    /\ entered = {}
    /\ enumerated = [n \in Nodes |-> 0]

\* cli.py:136-147  parse the URL; an invalid one ends main()
ParseUrl ==
    /\ cli_pc = "parse"
    /\ parsed' = ParseGitUrl(args.url)
    /\ IF parsed'.ok
       THEN /\ output' = output \o Verbose("Parsing URL")
            /\ cli_pc' = "mkdir"
       ELSE /\ output' = output \o Verbose("Parsing URL")
                                \o <<"Error: Invalid git URL format">>
            /\ cli_pc' = "exit"
    /\ UNCHANGED <<args, target, git_host, success, clone_calls, git_runs,
                   cvars, pvars, gvars>>

\* cli.py:149-160  create the directories; a dry run ends main() here
CreateDirectoryStructure ==
    /\ cli_pc = "mkdir"
    /\ target' = MadeDirectory(target)
    /\ IF args.dry_run
       THEN /\ output' = output \o Verbose("Owner, Repository")
                                \o Verbose("Target directory")
                                \o <<"Would clone">>
            /\ cli_pc' = "exit"
       ELSE /\ output' = output \o Verbose("Owner, Repository")
                                \o Verbose("Target directory")
            /\ cli_pc' = "clone"
    /\ UNCHANGED <<args, git_host, parsed, success, clone_calls, git_runs,
                   cvars, pvars, gvars>>

\* cli.py:163, 77-81  main() calls clone_repository, which looks at the
\* directory first and returns False when it has entries
CloneRepository ==
    /\ cli_pc = "clone"
    /\ clone_calls' = clone_calls + 1
    /\ IF HasEntries(target)
       THEN /\ output' = Append(output, "Directory is not empty")
            /\ success' = FALSE
            /\ cli_pc' = "cloned"
       ELSE /\ cli_pc' = "git"
            /\ UNCHANGED <<output, success>>
    /\ UNCHANGED <<args, target, git_host, parsed, git_runs,
                   cvars, pvars, gvars>>

\* cli.py:84-100  subprocess.run(["git", "clone", ...], check=True) and the
\* two handlers
RunGitClone ==
    /\ cli_pc = "git"
    /\ cli_pc' = "cloned"
    /\ CASE git_host = "ok" ->
              /\ git_runs' = Append(git_runs, target)
              /\ target' = "nonempty"
              /\ output' = Append(output, "Successfully cloned")
              /\ success' = TRUE
         [] git_host = "fails" ->
              /\ git_runs' = Append(git_runs, target)
              /\ output' = Append(output, "Failed to clone repository")
              /\ success' = FALSE
              /\ UNCHANGED target
         [] git_host = "missing" ->
              /\ output' = Append(output, "Git is not installed")
              /\ success' = FALSE
              /\ UNCHANGED <<target, git_runs>>
    /\ UNCHANGED <<args, git_host, parsed, clone_calls, cvars, pvars, gvars>>

\* cli.py:165-168  report, unless the clone failed
ReportReady ==
    /\ cli_pc = "cloned"
    /\ cli_pc' = "exit"
    /\ output' = IF ~success THEN output
                 ELSE Append(output, "Repository ready at")
    /\ UNCHANGED <<args, target, git_host, parsed, success, clone_calls,
                   git_runs, cvars, pvars, gvars>>

NextCli ==
    \/ ParseUrl
    \/ CreateDirectoryStructure
    \/ CloneRepository
    \/ RunGitClone
    \/ ReportReady

SpecCli == InitCli /\ [][NextCli]_vars

(* ---------------- find_object_cycles ---------------- *)
\* variants of the depth test: cut one level early, cut one level late
TooDeepEarly(depth, maxDepth) == depth >= maxDepth
TooDeepLate(depth, maxDepth) == depth > maxDepth + 1

\* utils.py:131  if depth > max_depth
TooDeep(depth, maxDepth) == depth > maxDepth

\* Python's == as used by `in` and list.index: identity first, then value
ValueEq(x, y) == x = y \/ val[x] = val[y]

\* variants of the visited test: never visited; visited holds the objects
\* themselves, so that membership compares by value
IsVisitedNever(obj, vis) == FALSE
IsVisitedByValue(obj, vis) == \E v \in vis : ValueEq(v, obj)

\* utils.py:134-135  obj_id = id(current_obj); obj_id in visited
IsVisited(obj, vis) == obj \in vis

\* utils.py:136  current_obj in path
InPath(obj, p) == \E i \in 1..Len(p) : ValueEq(p[i], obj)

\* utils.py:138  path.index(current_obj): first position that compares equal
PathIndex(obj, p) ==
    CHOOSE i \in 1..Len(p) :
        /\ ValueEq(p[i], obj)
        /\ \A j \in 1..(i - 1) : ~ValueEq(p[j], obj)

\* utils.py:139  path[cycle_start:] + [current_obj]
CycleRecord(obj, p) == SubSeq(p, PathIndex(obj, p), Len(p)) \o <<obj>>

\* utils.py:136-139  the cycles list after a visited object is met again
CyclesAfterRevisit(cyc, obj, p) ==
    IF InPath(obj, p) THEN Append(cyc, CycleRecord(obj, p)) ELSE cyc

\* variant of the enumeration: a failure is not noticed
ReferentsDespiteFailure(obj) == refs[obj]

\* utils.py:145-151  gc.get_referents under try/except: a failure leaves
\* nothing to iterate
Referents(obj) == IF obj \in fails THEN <<>> ELSE refs[obj]

\* utils.py:148  depth + 1
ChildDepth(depth) == depth + 1

\* a frame of _find_cycles: its object, its depth, the referents list it
\* iterates and the position of the iterator
NewFrame(obj, depth) ==
    [obj |-> obj, depth |-> depth, referents |-> Referents(obj), next |-> 1]

\* utils.py:156  the body of find_object_cycles calls _find_cycles(obj, 0)
OuterFrame(obj) ==
    [obj |-> NoObj, depth |-> 0 - 1, referents |-> <<obj>>, next |-> 1]

Top == stack[Len(stack)]

\* utils.py:147  the for loop has another element
HasNext(frame) == frame.next <= Len(frame.referents)

\* variant of the loop: the iterator never moves on
AdvanceTopStuck(stk) == stk

\* utils.py:147  the iterator moves on when it hands out an element
AdvanceTop(stk) ==
    [stk EXCEPT ![Len(stk)].next = stk[Len(stk)].next + 1]

\* utils.py:153  path.pop()
PathPop(p) == SubSeq(p, 1, Len(p) - 1)

\* utils.py:154  visited.remove(obj_id)
VisitedAfterReturn(vis, obj) == vis \ {obj}

Calling == pc = "running" /\ stack # <<>> /\ HasNext(Top)
CallObj == Top.referents[Top.next]
CallDepth == ChildDepth(Top.depth)

InitCycles ==
    /\ refs \in Graphs
    /\ fails = {}
    /\ val \in ValChoices
    /\ root \in Nodes
    /\ max_depth \in Depths
    /\ cycles = <<>>
    /\ visited = {}
    /\ path = <<>>
    /\ stack = <<OuterFrame(root)>>
    /\ pc = "running"
    /\ entered = {}
    /\ enumerated = [n \in Nodes |-> 0]
    /\ heap = [a \in Addrs |-> Free]
    /\ snapshots = <<>>
    /\ weak_refs = [a \in Addrs |-> NoEntry]
    /\ held = Nothing
    /\ psutil = TRUE
    /\ gc_enabled = TRUE
    /\ gc_collected = <<>>
    /\ made = {}
    /\ enabled = [i \in Collectors |-> FALSE]
    /\ stats_history = [i \in Collectors |-> <<>>]
    /\ summary = NoSummary
    /\ args = NoArgs
    /\ target = "absent"
    /\ git_host = "ok"
    /\ cli_pc = "exit"
    /\ parsed = NoParse
    /\ success = FALSE
    /\ clone_calls = 0
    /\ git_runs = <<>>
    /\ output = <<>>

\* utils.py:131-132  the call returns at once: too deep
SkipTooDeep ==
    /\ Calling
    /\ TooDeep(CallDepth, max_depth)
    /\ stack' = AdvanceTop(stack)
    /\ UNCHANGED <<pvars, gvars, lvars, refs, fails, val, root, max_depth, cycles, visited, path,
                   pc, entered, enumerated>>

\* utils.py:135-140  the object is in visited: record a cycle if it is on the
\* path, and return
Revisit ==
    /\ Calling
    /\ ~TooDeep(CallDepth, max_depth)
    /\ IsVisited(CallObj, visited)
    /\ cycles' = CyclesAfterRevisit(cycles, CallObj, path)
    /\ stack' = AdvanceTop(stack)
    /\ UNCHANGED <<pvars, gvars, lvars, refs, fails, val, root, max_depth, visited, path, pc,
                   entered, enumerated>>

\* utils.py:142-146  mark, push on the path, enumerate the referents
Enter ==
    /\ Calling
    /\ ~TooDeep(CallDepth, max_depth)
    /\ ~IsVisited(CallObj, visited)
    /\ visited' = visited \cup {CallObj}
    /\ path' = Append(path, CallObj)
    /\ stack' = Append(AdvanceTop(stack), NewFrame(CallObj, CallDepth))
    /\ entered' = entered \cup {CallObj}
    /\ enumerated' = [enumerated EXCEPT ![CallObj] = @ + 1]
    /\ UNCHANGED <<pvars, gvars, lvars, refs, fails, val, root, max_depth, cycles, pc>>

\* utils.py:153-154  the loop is over: pop the path, unmark, return
Unwind ==
    /\ pc = "running"
    /\ Len(stack) > 1
    /\ ~HasNext(Top)
    /\ path' = PathPop(path)
    /\ visited' = VisitedAfterReturn(visited, Top.obj)
    /\ stack' = SubSeq(stack, 1, Len(stack) - 1)
    /\ UNCHANGED <<pvars, gvars, lvars, refs, fails, val, root, max_depth, cycles, pc, entered,
                   enumerated>>

\* utils.py:157  return cycles
ReturnCycles ==
    /\ pc = "running"
    /\ Len(stack) = 1
    /\ ~HasNext(Top)
    /\ pc' = "done"
    /\ stack' = <<>>
    /\ UNCHANGED <<pvars, gvars, lvars, refs, fails, val, root, max_depth, cycles, visited, path,
                   entered, enumerated>>

NextCycles ==
    \/ SkipTooDeep
    \/ Revisit
    \/ Enter
    \/ Unwind
    \/ ReturnCycles

SpecCycles == InitCycles /\ [][NextCycles]_vars

\* the recursion is ordinary sequential code: a step that can be taken is taken
SpecCyclesFair == SpecCycles /\ WF_vars(NextCycles)

\* a call on a graph with one node for which gc.get_referents raises
InitCyclesFailing ==
    /\ refs \in Graphs
    /\ fails \in {{n} : n \in Nodes}
    /\ val = [n \in Nodes |-> n]
    /\ root \in Nodes
    /\ max_depth \in Depths
    /\ cycles = <<>>
    /\ visited = {}
    /\ path = <<>>
    /\ stack = <<OuterFrame(root)>>
    /\ pc = "running"
    /\ entered = {}
    /\ enumerated = [n \in Nodes |-> 0]
    /\ heap = [a \in Addrs |-> Free]
    /\ snapshots = <<>>
    /\ weak_refs = [a \in Addrs |-> NoEntry]
    /\ held = Nothing
    /\ psutil = TRUE
    /\ gc_enabled = TRUE
    /\ gc_collected = <<>>
    /\ made = {}
    /\ enabled = [i \in Collectors |-> FALSE]
    /\ stats_history = [i \in Collectors |-> <<>>]
    /\ summary = NoSummary
    /\ args = NoArgs
    /\ target = "absent"
    /\ git_host = "ok"
    /\ cli_pc = "exit"
    /\ parsed = NoParse
    /\ success = FALSE
    /\ clone_calls = 0
    /\ git_runs = <<>>
    /\ output = <<>>

SpecCyclesFailing ==
    InitCyclesFailing /\ [][NextCycles]_vars /\ WF_vars(NextCycles)

\* utils.py:126-157 as a function of the graph g: what the call
\* _find_cycles(obj, depth) leaves in cycles (path and visited are as before
\* when it returns), and what the loop over referents from position k on does
RECURSIVE CyclesAfterCall(_, _, _, _, _, _)
RECURSIVE CyclesAfterLoop(_, _, _, _, _, _, _)
CyclesAfterCall(g, obj, depth, vis, p, cyc) ==
    IF TooDeep(depth, max_depth) THEN cyc
    ELSE IF IsVisited(obj, vis) THEN CyclesAfterRevisit(cyc, obj, p)
    ELSE CyclesAfterLoop(g, g[obj], 1, depth, vis \cup {obj},
                         Append(p, obj), cyc)

CyclesAfterLoop(g, referents, k, depth, vis, p, cyc) ==
    IF k > Len(referents) THEN cyc
    ELSE CyclesAfterLoop(g, referents, k + 1, depth, vis, p,
             CyclesAfterCall(g, referents[k], ChildDepth(depth), vis, p, cyc))

\* utils.py:156-157  the result of find_object_cycles(root, max_depth) on g
FindObjectCycles(g) == CyclesAfterCall(g, root, 0, {}, <<>>, <<>>)

(* ======================= claims: find_object_cycles ==================== *)
Done == pc = "done"

Succ(n) == {refs[n][i] : i \in 1..Len(refs[n])}

RECURSIVE ReachSet(_, _)
ReachSet(S, k) ==
    IF k = 0 THEN S ELSE ReachSet(S \cup UNION {Succ(n) : n \in S}, k - 1)

\* no node reaches itself along one or more references
Acyclic == \A n \in Nodes : n \notin ReachSet(Succ(n), NumNodes)

\* root and one other node reference each other and nothing else
TwoNodeMutual(b) ==
    /\ b # root
    /\ refs[root] = <<b>>
    /\ refs[b] = <<root>>

\* root's only outgoing reference is to itself
SelfLoopOnly == refs[root] = <<root>>

\* C1 as stated: for a->b, b->a, find_object_cycles(a, max_depth) returns
\* exactly one record, holding a and b in path order, for every
\* max_depth >= 1.
C1_Original ==
    \A b \in Nodes :
        (Done /\ TwoNodeMutual(b) /\ max_depth >= 1)
            => cycles = << <<root, b, root>> >>

\* C1 amended: for a->b, b->a, find_object_cycles(a, max_depth) returns
\* exactly one record, <<a, b, a>>, for every max_depth >= 2 (the visit that
\* closes the cycle is at depth 2).
C1_MutualCycleFromDepth2 ==
    \A b \in Nodes :
        (Done /\ TwoNodeMutual(b) /\ max_depth >= 2)
            => cycles = << <<root, b, root>> >>

C1_Witness ==
    \E b \in Nodes :
        /\ Done /\ TwoNodeMutual(b) /\ max_depth = 2
        /\ cycles = << <<root, b, root>> >>

\* C2 as stated: for a->a only, find_object_cycles(a, max_depth) returns a
\* cycle record of length 1 (the node and its closing edge) for every
\* max_depth >= 0.
C2_Original ==
    (Done /\ SelfLoopOnly /\ max_depth >= 0)
        => \E i \in 1..Len(cycles) : cycles[i] = <<root, root>>

\* C2 amended: for a->a only, find_object_cycles(a, max_depth) returns
\* exactly one record, <<a, a>>, a cycle of length 1, for every
\* max_depth >= 1 (the visit that closes the cycle is at depth 1).
C2_SelfCycleFromDepth1 ==
    (Done /\ SelfLoopOnly /\ max_depth >= 1)
        => cycles = << <<root, root>> >>

C2_Witness ==
    Done /\ SelfLoopOnly /\ max_depth = 1 /\ cycles = << <<root, root>> >>

\* C3: on an acyclic reference graph, for every root and every max_depth,
\* find_object_cycles records no cycle at any point and returns an empty list,
\* also when a node is reached from root by two different branches.
C3_AcyclicNoCycles == Acyclic => cycles = <<>>

\* an acyclic graph in which a node was entered along two branches
C3_Witness ==
    /\ Done /\ Acyclic /\ cycles = <<>>
    /\ \E n \in Nodes : enumerated[n] >= 2

\* C4: find_object_cycles returns for every finite reference graph, cyclic
\* ones included, and every max_depth.
C4_Terminates == <>Done

\* a call on a cyclic graph that has returned with cycles found
C4_Witness == Done /\ ~Acyclic /\ Len(cycles) >= 2

\* C5: find_object_cycles(root, 0) marks no node other than root as visited,
\* enumerates the references of no node other than root, and returns a
\* non-empty result only if root directly references itself.
C5_DepthZeroStaysAtRoot ==
    max_depth = 0 =>
        /\ entered \subseteq {root}
        /\ visited \subseteq {root}
        /\ \A n \in Nodes \ {root} : enumerated[n] = 0
        /\ (Done /\ cycles # <<>>) => root \in Succ(root)

\* a finished call with max_depth 0 on a root that references another node
C5_Witness ==
    /\ Done /\ max_depth = 0
    /\ entered = {root}
    /\ \E n \in Succ(root) : n # root

(* ======================= claims: MemoryProfiler ======================== *)
\* an index names an existing position 0..count-1
InRange(i) == 0 <= i /\ i < Len(snapshots)

\* what get_tracked_objects() returns in the current state
Listing == TrackedObjects(weak_refs)

\* the dict found at position i (1-based) of the snapshot list
SnapshotAt(i) == heap[snapshots[i]]

\* C6 as stated: compare_snapshots(i, j) fails with IndexError whenever i or
\* j is not an existing position 0..count-1 (negative indexes included), and
\* the failed call leaves the snapshot list unchanged.
C6_Original ==
    [][\A i \in Indexes(snapshots), j \in Indexes(snapshots) :
          (CompareSnapshotsCall(i, j) /\ ~(InRange(i) /\ InRange(j)))
              => (held'.kind = "IndexError" /\ snapshots' = snapshots)]_vars

\* C7: for all indexes i, j that compare_snapshots accepts,
\* compare_snapshots(i, j) and compare_snapshots(j, i) have negated
\* time_diff, rss_diff, vms_diff and objects_diff and swapped labels.
C7_Antisymmetric ==
    \A i \in Indexes(snapshots), j \in Indexes(snapshots) :
        ~CompareRaises(snapshots, i, j) =>
            LET ij == CompareResult(heap, snapshots, i, j)
                ji == CompareResult(heap, snapshots, j, i)
            IN  /\ ~CompareRaises(snapshots, j, i)
                /\ ij.time_diff = 0 - ji.time_diff
                /\ ij.rss_diff = 0 - ji.rss_diff
                /\ ij.vms_diff = 0 - ji.vms_diff
                /\ ij.objects_diff = 0 - ji.objects_diff
                /\ ij.label1 = ji.label2
                /\ ij.label2 = ji.label1
                /\ (i = j => /\ ij.time_diff = 0 /\ ij.rss_diff = 0
                             /\ ij.vms_diff = 0 /\ ij.objects_diff = 0)

\* a comparison of two different snapshots has been returned
C7_Witness ==
    /\ Len(snapshots) >= 2
    /\ held.kind = "diff"
    /\ held.diff.time_diff > 0 /\ held.diff.rss_diff < 0
    /\ held.diff.label1 # held.diff.label2

\* every dict of the list is found unchanged at its position after the step
PrefixKept ==
    /\ Len(snapshots') >= Len(snapshots)
    /\ \A i \in 1..Len(snapshots) :
          heap'[snapshots'[i]] = heap[snapshots[i]]

\* C8: take_snapshot (with psutil installed, so that it succeeds) appends
\* exactly one snapshot at the end of the list and returns that entry; take_snapshot, compare_snapshots and the tracking
\* operations leave the snapshot at every existing index as it is; only
\* clear_snapshots removes entries.
C8_StableIndexes ==
    [][/\ (psutil /\ TakeSnapshot) =>
            /\ Len(snapshots') = Len(snapshots) + 1
            /\ held'.kind = "snapshot"
            /\ held'.ref = snapshots'[Len(snapshots')]
       /\ PrefixKept \/ ~(TakeSnapshot \/ CompareSnapshots \/ TrackObject
                           \/ GetTrackedObjects \/ ClearTracking)
       /\ Len(snapshots') < Len(snapshots) => ClearSnapshots]_vars

\* a second snapshot was appended behind a different first one and returned
C8_Witness ==
    /\ Len(snapshots) = 2
    /\ held.kind = "snapshot" /\ held.ref = snapshots[2]
    /\ SnapshotAt(1).label = "before" /\ SnapshotAt(2).label = "after"

\* C9: after clear_snapshots() the snapshot list is empty, after
\* clear_tracking() get_tracked_objects() returns an empty mapping, and the
\* snapshot or listing the caller got before the clear keeps its contents.
C9_ClearEmpties ==
    [][/\ ClearSnapshots => snapshots' = <<>>
       /\ ClearTracking =>
            TrackedObjects(weak_refs') = [a \in Addrs |-> NoStatus]
       /\ (ClearSnapshots \/ ClearTracking) =>
            /\ held' = held
            /\ held.kind = "snapshot" => heap'[held.ref] = heap[held.ref]]_vars

\* the list was cleared while the caller holds a snapshot it got before
C9_Witness ==
    /\ snapshots = <<>>
    /\ held.kind = "snapshot"
    /\ heap[held.ref].kind = "dict"
    /\ heap[held.ref].label = "after"

\* C10 as stated: a weakly tracked object is listed alive while it exists;
\* once it is reclaimed, every later get_tracked_objects() lists its handle
\* with alive False and with the label and type of its registration
\* (clear_tracking, which empties the registry, set aside).
C10_Original ==
    [][/\ \A a \in Addrs :
             (weak_refs[a].tracked /\ weak_refs[a].ref_type = "weak"
                /\ heap[a].kind = "obj" /\ weak_refs[a].ref_live)
                 => Listing[a].alive
       /\ ClearTracking \/
            \A a \in Addrs :
              (Listing[a].listed /\ Listing[a].type = "TestObject"
                 /\ ~Listing[a].alive)
                  => /\ Listing'[a].listed
                     /\ ~Listing'[a].alive
                     /\ Listing'[a].label = Listing[a].label
                     /\ Listing'[a].type = Listing[a].type]_vars

\* the number of entries of the registry
RegistrySize(wr) == Cardinality({a \in Addrs : wr[a].tracked})

\* C11 as stated: track_object on an object that is alive and already
\* registered under another label adds one more entry to the registry, returns
\* an id different from the first handle's, and the first handle keeps
\* reporting its own label.
C11_Original ==
    [][\A a \in Addrs, label \in Labels :
          (/\ TrackObjectCall(a, label)
           /\ weak_refs[a].tracked
           /\ weak_refs[a].ref_live
           /\ weak_refs[a].label # label)
              => /\ RegistrySize(weak_refs') = RegistrySize(weak_refs) + 1
                 /\ held'.ref # a
                 /\ Listing'[a].label = Listing[a].label]_vars

(* ======================= claims: GarbageCollector ====================== *)
\* C12 as stated: in every state reached by enable()/disable() calls on any
\* GarbageCollector instance, each instance's enabled flag, and the 'enabled'
\* that get_memory_summary() just reported, equal the host collector's on/off
\* state.
C12_Original ==
    /\ \A i \in made : enabled[i] = gc_enabled
    /\ summary.kind = "summary" => summary.enabled = gc_enabled

\* earlier entries stay where they are in every instance's history
HistoryKept ==
    \A i \in Collectors :
        /\ Len(stats_history'[i]) >= Len(stats_history[i])
        /\ SubSeq(stats_history'[i], 1, Len(stats_history[i]))
              = stats_history[i]

\* C13: every collect() call appends exactly one entry at the end of its
\* instance's stats_history, so that entries are in call order, and no
\* GarbageCollector operation removes or alters an existing entry.
C13_AppendOnly ==
    [][/\ HistoryKept
       /\ \A i \in Collectors, g \in Generations :
             CollectCall(i, g) =>
                /\ Len(stats_history'[i]) = Len(stats_history[i]) + 1
                /\ \A k \in 1..Len(stats_history[i]) :
                      stats_history[i][k].timestamp
                        < stats_history'[i][Len(stats_history'[i])].timestamp
                /\ \A j \in Collectors \ {i} :
                      stats_history'[j] = stats_history[j]]_vars

\* an instance recorded two collections, another instance one in between
C13_Witness ==
    \E i \in made, j \in made :
        /\ i # j
        /\ Len(stats_history[i]) = 2
        /\ Len(stats_history[j]) = 1
        /\ stats_history[i][1].timestamp < stats_history[j][1].timestamp
        /\ stats_history[j][1].timestamp < stats_history[i][2].timestamp

\* C14 as stated: collect(generation) asks the host to collect the requested
\* generation: 0 and 1 collect only that generation and younger, 2 is a full
\* collection.
C14_Original ==
    [][\A i \in Collectors, g \in Generations :
          CollectCall(i, g) => gc_collected'[Len(gc_collected')] = g]_vars

(* ======================= claims: psutil absent ========================= *)
\* C15: when psutil is absent, take_snapshot, monitor_memory_usage and
\* analyze_memory_usage each end in an ImportError given to the caller and
\* record nothing: the snapshot list stays as it is (and empty), no dict is
\* created and no sample is returned.
C15_UnavailableRecordsNothing ==
    [][~psutil =>
         /\ (TakeSnapshot \/ MonitorMemoryUsage \/ AnalyzeMemoryUsage) =>
               /\ held'.kind = "ImportError"
               /\ snapshots' = snapshots
         /\ snapshots' = <<>>
         /\ held'.kind \notin {"snapshot", "samples", "analysis"}
         /\ \A a \in Addrs : heap'[a].kind # "dict"]_vars

\* without psutil a call has just failed, nothing is in the list
C15_Witness ==
    /\ ~psutil
    /\ held.kind = "ImportError"
    /\ snapshots = <<>>

(* ======================= claims: CLI =================================== *)
Printed(line) == \E k \in 1..Len(output) : output[k] = line

\* C16: in main(), clone_repository is never called when the URL does not
\* parse or --dry-run is given, git clone is never run on a target directory
\* that has entries, and 'Repository ready at' is printed only after
\* clone_repository returned True.
C16_CloneGuarded ==
    /\ clone_calls > 0 => (ParseGitUrl(args.url).ok /\ ~args.dry_run)
    /\ \A k \in 1..Len(git_runs) : git_runs[k] # "nonempty"
    /\ Printed("Repository ready at") =>
          /\ cli_pc = "exit"
          /\ clone_calls = 1
          /\ success
          /\ Printed("Successfully cloned")

\* main() has ended after a clone into a directory it had to create
C16_Witness ==
    /\ cli_pc = "exit"
    /\ Printed("Repository ready at")
    /\ git_runs = <<"empty">>
    /\ target = "nonempty"

(* ============== claims: find_object_cycles, visited and records ======== *)
\* C17 as stated: during one find_object_cycles call a node that was popped
\* from the path stays in the visited set for the rest of the call, and every
\* node's outgoing references are enumerated at most once per call.
C17_Original ==
    /\ pc = "running" => entered \subseteq visited
    /\ \A n \in Nodes : enumerated[n] <= 1

\* r[k] references r[k + 1] for every position k of the record r
FollowsEdges(r) == \A k \in 1..(Len(r) - 1) : r[k + 1] \in Succ(r[k])

\* the nodes of r before its last element are pairwise different nodes
DistinctBeforeLast(r) ==
    \A k \in 1..(Len(r) - 1), m \in 1..(Len(r) - 1) : r[k] = r[m] => k = m

\* C18 as stated: every record is the suffix of the path that starts at the
\* re-encountered node n itself, with n appended: it starts and ends with n,
\* consecutive elements are joined by a reference, and the nodes before the
\* final n are pairwise distinct, also when distinct nodes compare equal by
\* value.
C18_Original ==
    \A k \in 1..Len(cycles) :
        LET r == cycles[k]
        IN  /\ Len(r) >= 2
            /\ r[1] = r[Len(r)]
            /\ FollowsEdges(r)
            /\ DistinctBeforeLast(r)

(* ============== claims: find_object_cycles, failing enumeration ======== *)
\* the graph in which the nodes whose enumeration fails have no references
LeafGraph == [n \in Nodes |-> IF n \in fails THEN <<>> ELSE refs[n]]

\* C19: when the enumeration of a node's references fails,
\* find_object_cycles still returns, and its result is the result on the same
\* graph with that node having no outgoing references: siblings and the rest
\* of the graph are traversed as without the failure.
C19_FailureIsLeaf ==
    /\ [](Done => cycles = FindObjectCycles(LeafGraph))
    /\ <>Done

\* a finished call that entered a failing node with references of its own,
\* went on to a later sibling of it and found a cycle there
C19_Witness ==
    /\ Done
    /\ cycles # <<>>
    /\ \E n \in fails :
          /\ n \in entered
          /\ refs[n] # <<>>
          /\ n # root
          /\ \E k \in 1..Len(refs[root]), m \in 1..Len(refs[root]) :
                /\ refs[root][k] = n
                /\ k < m
                /\ refs[root][m] \in entered

(* ============== claims: find_object_cycles, one record per path ======== *)
\* the simple paths from root along references: no node twice
SimplePaths ==
    { p \in UNION { [1..k -> Nodes] : k \in 1..NumNodes } :
        /\ p[1] = root
        /\ \A k \in 1..Len(p), m \in 1..Len(p) : p[k] = p[m] => k = m
        /\ \A k \in 1..(Len(p) - 1) : p[k + 1] \in Succ(p[k]) }

\* a simple path p0..pk with k + 1 <= max_depth and a reference from its last
\* node back to its node at position j
ClosingPairs ==
    { pair \in SimplePaths \X (1..NumNodes) :
        LET p == pair[1]
            j == pair[2]
        IN  /\ Len(p) <= max_depth
            /\ j <= Len(p)
            /\ p[j] \in Succ(p[Len(p)]) }

\* the cycle a pair stands for: from the node referred back to, to the end of
\* the path, and that node again
CycleOf(pair) ==
    SubSeq(pair[1], pair[2], Len(pair[1])) \o <<pair[1][pair[2]]>>

\* how often the record r is in the result
Occurrences(r) == Cardinality({k \in 1..Len(cycles) : cycles[k] = r})

\* C20 as stated: find_object_cycles returns exactly one record for every
\* pair of a simple path root = p0 -> ... -> pk with k + 1 <= max_depth and a
\* reference pk -> pj, j <= k: every cycle is in the result as often as there
\* are pairs that stand for it (a loop reached along several paths gives
\* several records of identical content), and nothing else is in the result.
C20_Original ==
    Done =>
        /\ Len(cycles) = Cardinality(ClosingPairs)
        /\ \A pair \in ClosingPairs :
              Occurrences(CycleOf(pair))
                = Cardinality({q \in ClosingPairs : CycleOf(q) = CycleOf(pair)})

(* ======================= claims: stored snapshots, dead handles ======== *)
\* C21 as stated: a stored snapshot is never changed after its creation: what
\* take_snapshot returns is independent of the stored entry, so no store
\* operation and no change the caller makes to a returned snapshot alters
\* what compare_snapshots reads at an index of the list (clear_snapshots,
\* which removes the entries, set aside).
C21_Original ==
    [][ClearSnapshots \/
         /\ \A i \in 1..Len(snapshots) :
               /\ i <= Len(snapshots')
               /\ heap'[snapshots'[i]] = heap[snapshots[i]]
         /\ \A i \in Indexes(snapshots), j \in Indexes(snapshots) :
               (InRange(i) /\ InRange(j)) =>
                  CompareResult(heap', snapshots', i, j)
                    = CompareResult(heap, snapshots, i, j)]_vars

\* C22 as stated: once get_tracked_objects() reports a handle id with alive
\* False, every later listing reports that id with alive False and the same
\* label and type until clear_tracking(); no track_object() call for another
\* object replaces or revives the entry, also when the host gives a new
\* object the identity of the reclaimed one. (get_tracked_objects() only reads
\* the registry, so what it reports in a state is Listing.)
C22_Original ==
    [][\A a \in Addrs :
          (Listing[a].listed /\ ~Listing[a].alive /\ ~ClearTracking)
              => Listing'[a] = Listing[a]]_vars

====
